---- MODULE Spec2Model ----
(***************************************************************************)
(* The upstream-patch-review dashboard: the client-side router, the        *)
(* record-to-row pipeline and the row filters of src/app.js (records are   *)
(* addressed by change id through keys ending in "_home.html") and of      *)
(* src/unnamed/part_000 (records are addressed directly by git hash).      *)
(*                                                                         *)
(* A JavaScript string is a sequence of one-character strings.             *)
(***************************************************************************)
EXTENDS Integers, Sequences, FiniteSets, TLC

VARIABLES
    mode,         \* which variant runs: "indirect" (src/app.js) or "direct" (src/unnamed/part_000)
    pc,           \* position of init(): "loading", "ready" (listener registered), "failed"
    metadata,     \* app.metadata
    currentView,  \* app.currentView
    fragment,     \* the fragment of the document URL (null when the URL has none)
    events,       \* hashchange events queued and not yet dispatched
    content,      \* the DOM below #content
    pending,      \* network fetches in flight
    versionInfo,  \* text of #version-info
    lastOp,       \* the handler that ran last (history)
    discarded,    \* the filter selection that handler's write of #content
                  \* threw away, All on every axis when it wrote none (history)
    followed      \* the record of the home row whose link set the fragment,
                  \* none when the fragment was set otherwise (history)

vars == <<mode, pc, metadata, currentView, fragment, events, content, pending,
          versionInfo, lastOp, discarded, followed>>

-----------------------------------------------------------------------------
(* String literals of the source *)

S_empty        == << >>
S_review       == <<"#","r","e","v","i","e","w","/">>
S_status       == <<"#","s","t","a","t","u","s">>
S_home_html    == <<"_","h","o","m","e",".","h","t","m","l">>
S_install      == <<"/","v","a","r","/","w","w","w","/","c","i","-","l","u","s","t","r","e","/",
                    "u","p","s","t","r","e","a","m","-","p","a","t","c","h","-",
                    "r","e","v","i","e","w","/">>
S_result       == <<"r","e","s","u","l","t">>
S_enforced     == <<"e","n","f","o","r","c","e","d">>
S_runtime      == <<"r","u","n","t","i","m","e">>
S_description  == <<"d","e","s","c","r","i","p","t","i","o","n">>
S_True         == <<"T","r","u","e">>
S_true         == <<"t","r","u","e">>
S_false        == <<"f","a","l","s","e">>
S_PASS         == <<"P","A","S","S">>
S_FAIL         == <<"F","A","I","L">>
S_NA           == <<"N","/","A">>
S_All          == <<"A","l","l">>
S_Link         == <<"L","i","n","k">>
S_Enforced     == <<"E","n","f","o","r","c","e","d">>
S_Optional     == <<"O","p","t","i","o","n","a","l">>
S_Unknown      == <<"U","n","k","n","o","w","n">>
S_Job          == <<"J","o","b",":"," ">>
S_log          == <<".","l","o","g">>
S_underscore   == <<"_">>
S_InvalidDate  == <<"I","n","v","a","l","i","d"," ","D","a","t","e">>
S_patch_revision == <<"p","a","t","c","h","_","r","e","v","i","s","i","o","n">>
S_change_id    == <<"c","h","a","n","g","e","_","i","d">>
S_subject      == <<"s","u","b","j","e","c","t">>
S_time_stamp   == <<"t","i","m","e","_","s","t","a","m","p">>
S_total_runtime == <<"t","o","t","a","l","_","r","u","n","t","i","m","e">>
S_notFoundHash == <<"R","e","v","i","e","w"," ","w","i","t","h"," ","g","i","t"," ",
                    "h","a","s","h"," ">>
S_notFoundChange == <<"R","e","v","i","e","w"," ","w","i","t","h"," ","c","h","a","n","g","e"," ",
                      "I","D"," ">>
S_notFound     == <<" ","n","o","t"," ","f","o","u","n","d">>
S_noMetadata   == <<"N","o"," ","m","e","t","a","d","a","t","a"," ",
                    "a","v","a","i","l","a","b","l","e">>
S_noTestData   == <<"T","e","s","t"," ","d","a","t","a"," ","n","o","t"," ","f","o","u","n","d">>
S_initFailed   == <<"F","a","i","l","e","d"," ","t","o"," ","i","n","i","t","i","a","l","i","z","e">>
S_statusFailed == <<"F","a","i","l","e","d"," ","t","o"," ","l","o","a","d"," ",
                    "s","t","a","t","u","s">>
S_logFailed    == <<"E","r","r","o","r"," ","l","o","a","d","i","n","g"," ","l","o","g">>
S_Loading      == <<"L","o","a","d","i","n","g",".",".",".">>
S_selectTest   == <<"S","e","l","e","c","t"," ","a"," ","t","e","s","t">>

-----------------------------------------------------------------------------
(* String.prototype methods the source calls *)

startsWith(s, p) == Len(s) >= Len(p) /\ SubSeq(s, 1, Len(p)) = p

endsWith(s, p) == Len(s) >= Len(p) /\ SubSeq(s, Len(s) - Len(p) + 1, Len(s)) = p

substring(s, n) == SubSeq(s, n + 1, Len(s))

UpperCase == <<"A","B","C","D","E","F","G","H","I","J","K","L","M",
               "N","O","P","Q","R","S","T","U","V","W","X","Y","Z">>

LowerCase == <<"a","b","c","d","e","f","g","h","i","j","k","l","m",
               "n","o","p","q","r","s","t","u","v","w","x","y","z">>

\* c.toLowerCase() of one character
toLowerChar(c) ==
    IF \E i \in 1..Len(UpperCase) : UpperCase[i] = c
    THEN LowerCase[CHOOSE i \in 1..Len(UpperCase) : UpperCase[i] = c]
    ELSE c

\* name.replace(/ /g, "_").toLowerCase()
normalizeName(name) ==
    [i \in 1..Len(name) |-> toLowerChar(IF name[i] = " " THEN "_" ELSE name[i])]

-----------------------------------------------------------------------------
(* JSON values and JavaScript numbers *)

StringValue(s)  == [t |-> "string", s |-> s, n |-> 0, b |-> FALSE]
NumberValue(n)  == [t |-> "number", s |-> S_empty, n |-> n, b |-> FALSE]
BooleanValue(b) == [t |-> "boolean", s |-> S_empty, n |-> 0, b |-> b]
undefined       == [t |-> "undefined", s |-> S_empty, n |-> 0, b |-> FALSE]

\* ToBoolean: what `x && ...`, `x || d` and `if (x)` test
truthy(v) ==
    CASE v.t = "string"  -> v.s # S_empty
      [] v.t = "number"  -> v.n # 0
      [] v.t = "boolean" -> v.b
      [] OTHER           -> FALSE

\* x || d
orElse(v, d) == IF truthy(v) THEN v ELSE d

\* A JavaScript number: an integer or NaN
Num(n) == [nan |-> FALSE, v |-> n]
NaN    == [nan |-> TRUE, v |-> 0]

DigitChars == <<"0","1","2","3","4","5","6","7","8","9">>

isDigit(c) == \E i \in 1..Len(DigitChars) : DigitChars[i] = c

digitValue(c) == (CHOOSE i \in 1..Len(DigitChars) : DigitChars[i] = c) - 1

RECURSIVE natToString(_)
natToString(n) ==
    IF n < 10 THEN <<DigitChars[n + 1]>>
    ELSE natToString(n \div 10) \o <<DigitChars[(n % 10) + 1]>>

\* ToString of a JSON value, as template literals and text.toString() compute it
toString(v) ==
    CASE v.t = "string"  -> v.s
      [] v.t = "number"  -> IF v.n < 0 THEN <<"-">> \o natToString(-v.n) ELSE natToString(v.n)
      [] v.t = "boolean" -> IF v.b THEN S_true ELSE S_false
      [] OTHER           -> <<"u","n","d","e","f","i","n","e","d">>

RECURSIVE skipSpaces(_)
skipSpaces(s) == IF s # S_empty /\ Head(s) = " " THEN skipSpaces(Tail(s)) ELSE s

RECURSIVE digitRun(_)
\* the longest prefix of s made of decimal digits
digitRun(s) ==
    IF s # S_empty /\ isDigit(Head(s)) THEN <<Head(s)>> \o digitRun(Tail(s)) ELSE S_empty

RECURSIVE digitsValue(_, _)
digitsValue(s, acc) ==
    IF s = S_empty THEN acc ELSE digitsValue(Tail(s), acc * 10 + digitValue(Head(s)))

\* The decimal-integer prefix of a string after white space and a sign: what
\* parseInt(s) and parseFloat(s) both return for strings holding no ".", no
\* exponent, no "0x" and no "Infinity" after that prefix; NaN when the prefix
\* has no digit.
parseDecimal(s) ==
    LET t    == skipSpaces(s)
        neg  == t # S_empty /\ Head(t) = "-"
        body == IF t # S_empty /\ Head(t) \in {"-", "+"} THEN Tail(t) ELSE t
        run  == digitRun(body)
    IN  IF run = S_empty THEN NaN
        ELSE Num(IF neg THEN -digitsValue(run, 0) ELSE digitsValue(run, 0))

\* parseInt(x): ToString(x), then the integer prefix
parseInt(v) == parseDecimal(toString(v))

\* parseFloat(x): ToString(x), then the numeric prefix
parseFloat(v) == parseDecimal(toString(v))

-----------------------------------------------------------------------------
(* Records: a JSON object is the sequence of its own fields in enumeration  *)
(* order (for ... in, Object.keys).                                         *)

Field(name, val) == [name |-> name, val |-> val]

hasOwn(data, name) == \E i \in 1..Len(data) : data[i].name = name

\* data[name] on a record: undefined when the field is absent
get(data, name) ==
    IF hasOwn(data, name)
    THEN data[CHOOSE i \in 1..Len(data) : data[i].name = name].val
    ELSE undefined

-----------------------------------------------------------------------------
(* app.metadata: null until loadMetadata stores the parsed snapshot, then   *)
(* whatever JSON value the body held: an object, the sequence of its        *)
(* entries in the order Object.keys gives; an array, its elements under the *)
(* keys "0", "1", ...; null; or a scalar (a number other than 0, or true),  *)
(* which has no key of its own.                                             *)

NullMetadata == [shape |-> "null", entries |-> << >>]

ObjectMetadata(entries) == [shape |-> "object", entries |-> entries]

ArrayMetadata(entries) == [shape |-> "array", entries |-> entries]

ScalarMetadata == [shape |-> "scalar", entries |-> << >>]

\* An entry whose value is an object, the sequence of its fields
Entry(key, data) == [key |-> key, data |-> data, prim |-> "object"]

\* An entry whose value is null: reading a property of it throws a TypeError
NullEntry(key) == [key |-> key, data |-> << >>, prim |-> "null"]

\* An entry whose value is a truthy scalar (5, "x", true): every property
\* the code reads of it is undefined and for-in finds no key in it
ScalarEntry(key) == [key |-> key, data |-> << >>, prim |-> "scalar"]

\* Object.keys(this.metadata)
objectKeys(md) == [i \in 1..Len(md.entries) |-> md.entries[i].key]

hasOwnKey(md, key) == \E i \in 1..Len(md.entries) : md.entries[i].key = key

ownEntry(md, key) == md.entries[CHOOSE i \in 1..Len(md.entries) : md.entries[i].key = key]

ownData(md, key) == ownEntry(md, key).data

\* Names every object inherits from Object.prototype
S_constructor == <<"c","o","n","s","t","r","u","c","t","o","r">>
S_toString    == <<"t","o","S","t","r","i","n","g">>
S_valueOf     == <<"v","a","l","u","e","O","f">>
S_proto       == <<"_","_","p","r","o","t","o","_","_">>
S_length      == <<"l","e","n","g","t","h">>

ObjectPrototypeKeys == {S_constructor, S_toString, S_valueOf, S_proto}

\* this.metadata[key]: the own entry ("null" when its value is null, else a
\* truthy value with the fields data); the length of an array; else what the
\* prototype chain holds under that name (a function or Object.prototype: a
\* truthy value with no enumerable property and none of the record fields);
\* else undefined.
lookup(md, key) ==
    IF hasOwnKey(md, key)
    THEN IF ownEntry(md, key).prim = "null"
         THEN [t |-> "null", own |-> TRUE, data |-> << >>]
         ELSE [t |-> "object", own |-> TRUE, data |-> ownData(md, key)]
    ELSE IF md.shape = "array" /\ key = S_length
    THEN [t |-> IF md.entries = << >> THEN "null" ELSE "object", own |-> TRUE, data |-> << >>]
    ELSE IF key \in ObjectPrototypeKeys
    THEN [t |-> "object", own |-> FALSE, data |-> << >>]
    ELSE [t |-> "undefined", own |-> FALSE, data |-> << >>]

-----------------------------------------------------------------------------
(* Outcomes of a record: the loop shared by showHome and showTestDetail     *)

\* the names of the fields of data that start with "result", in for-in order
resultKeys(data) ==
    SelectSeq([i \in 1..Len(data) |-> data[i].name], LAMBDA k : startsWith(k, S_result))

\* rc || 0: a value that does not parse counts as return code 0
returnCode_nanIsZero(v) == LET rc == parseInt(v) IN IF rc.nan THEN 0 ELSE rc.v

\* isNaN(rc) ? -1 : rc
returnCode(v) == LET rc == parseInt(v) IN IF rc.nan THEN -1 ELSE rc.v

\* if (data[enforcedKey]): any truthy value reads as enforced
isEnforced_anyTruthy(data, name) == truthy(get(data, S_enforced \o name))

\* data[enforcedKey] === "True" || data[enforcedKey] === true
isEnforced(data, name) ==
    LET e == get(data, S_enforced \o name)
    IN  e = StringValue(S_True) \/ e = BooleanValue(TRUE)

\* the loop of showHome written with rc || 0 where that of showTestDetail
\* has isNaN(rc) ? -1 : rc
homeResult_nanIsZero(data, key) ==
    LET name == substring(key, Len(S_result))
    IN  [name |-> name, rc |-> returnCode_nanIsZero(get(data, key)),
         enforced |-> isEnforced(data, name)]

\* results.push({ name, rc, enforced }) of showHome
homeResult(data, key) ==
    LET name == substring(key, Len(S_result))
    IN  [name |-> name, rc |-> returnCode(get(data, key)), enforced |-> isEnforced(data, name)]

homeResults(data) ==
    LET ks == resultKeys(data) IN [i \in 1..Len(ks) |-> homeResult(data, ks[i])]

\* every() alone: no outcomes at all reads as all passing
summarize_emptyPasses(results) ==
    IF \A i \in 1..Len(results) : results[i].rc = 0 THEN S_PASS
    ELSE S_FAIL

\* const summarize = (results) => ...
summarize(results) ==
    IF Len(results) = 0 THEN S_NA
    ELSE IF \A i \in 1..Len(results) : results[i].rc = 0 THEN S_PASS
    ELSE S_FAIL

enforcedResults(results) == SelectSeq(results, LAMBDA r : r.enforced)

optionalResults(results) == SelectSeq(results, LAMBDA r : ~r.enforced)

\* homePath.replace(/^\/var\/www\/ci-lustre\/upstream-patch-review\//, "")
\*         .replace(/_home\.html$/, "")
logPrefixIndirect(homePath) ==
    LET webPath == IF startsWith(homePath, S_install)
                   THEN substring(homePath, Len(S_install)) ELSE homePath
    IN  IF endsWith(webPath, S_home_html)
        THEN SubSeq(webPath, 1, Len(webPath) - Len(S_home_html)) ELSE webPath

logPrefix(m, key) == IF m = "indirect" THEN logPrefixIndirect(key) ELSE key

\* results.push({ name, rc, enforced, runtime, description, logPath }) of showTestDetail
detailResult(m, recordKey, data, key) ==
    LET name == substring(key, Len(S_result))
    IN  [name        |-> name,
         rc          |-> returnCode(get(data, key)),
         enforced    |-> isEnforced(data, name),
         runtime     |-> orElse(get(data, S_runtime \o name), StringValue(S_NA)),
         description |-> orElse(get(data, S_description \o name), StringValue(S_Job \o name)),
         logPath     |-> logPrefix(m, recordKey) \o S_underscore \o normalizeName(name) \o S_log]

\* the outcomes collected at the front of the list: last field first
detailResults_reversed(m, recordKey, data) ==
    LET ks == resultKeys(data)
    IN  [i \in 1..Len(ks) |-> detailResult(m, recordKey, data, ks[Len(ks) + 1 - i])]

detailResults(m, recordKey, data) ==
    LET ks == resultKeys(data)
    IN  [i \in 1..Len(ks) |-> detailResult(m, recordKey, data, ks[i])]

-----------------------------------------------------------------------------
(* Rows of the two tables. cells[i] is the text of td:nth-child(i); src is  *)
(* the key of the record the row was built from; filtered is the row's      *)
(* "filtered" class.                                                        *)

\* the formatted date of a row: the calendar conversion is not modelled, the
\* cell shows the epoch seconds, or "Invalid Date" for NaN
formatTime(ts) ==
    IF ts.nan THEN S_InvalidDate
    ELSE IF ts.v < 0 THEN <<"-">> \o natToString(-ts.v) ELSE natToString(ts.v)

\* escapeHtml(text) parsed back by innerHTML: the text of the node
textOf(v) == IF v.t = "undefined" THEN S_empty ELSE toString(v)

\* The serialization of one character of a text node, as div.innerHTML gives
\* it: "&", "<" and ">" become entities, quotes stay as they are
escapeChar(c) ==
    CASE c = "&" -> <<"&","a","m","p",";">>
      [] c = "<" -> <<"&","l","t",";">>
      [] c = ">" -> <<"&","g","t",";">>
      [] OTHER   -> <<c>>

RECURSIVE escapeText(_)
escapeText(s) == IF s = S_empty THEN S_empty ELSE escapeChar(Head(s)) \o escapeText(Tail(s))

\* escapeHtml(text): "" for null and undefined, else div.textContent =
\* text.toString() read back as div.innerHTML
escapeHtml(v) == IF v.t = "undefined" THEN S_empty ELSE escapeText(toString(v))

\* the character references the HTML parser decodes
Entities ==
    { <<"&","a","m","p",";">>, <<"&","l","t",";">>, <<"&","g","t",";">>,
      <<"&","q","u","o","t",";">>, <<"&","#","3","9",";">> }

decoded(entity) ==
    CASE entity = <<"&","a","m","p",";">>     -> "&"
      [] entity = <<"&","l","t",";">>         -> "<"
      [] entity = <<"&","g","t",";">>         -> ">"
      [] entity = <<"&","q","u","o","t",";">> -> "\""
      [] OTHER                                -> "'"

RECURSIVE decodeEntities(_)
\* the text that markup stands for: every entity replaced by its character
decodeEntities(s) ==
    IF s = << >> THEN << >>
    ELSE IF \E e \in Entities : startsWith(s, e)
    THEN LET e == CHOOSE x \in Entities : startsWith(s, x)
         IN  <<decoded(e)>> \o decodeEntities(substring(s, Len(e)))
    ELSE <<Head(s)>> \o decodeEntities(Tail(s))

RECURSIVE upToQuote(_)
\* the characters of s before its first double quote
upToQuote(s) ==
    IF s = << >> \/ Head(s) = "\"" THEN << >> ELSE <<Head(s)>> \o upToQuote(Tail(s))

\* The value the HTML parser gives an attribute written as name="...":
\* it ends at the first double quote, and its entities are decoded
attributeValue(written) == decodeEntities(upToQuote(written))

\* `${value}` of a template literal: the string conversion, nothing escaped
interpolate(v) == toString(v)

\* A value embedded in markup: where (the text of an element, the value of a
\* double-quoted href, a single-quoted argument of an inline handler), the
\* value, and the characters the renderer wrote for it. The state keeps them
\* for the attributes of the rows and for the heading or message of a view.
Embed(place, raw, written) == [place |-> place, raw |-> raw, written |-> written]

escaped(place, v) == Embed(place, textOf(v), escapeHtml(v))

unescaped(place, v) == Embed(place, interpolate(v), interpolate(v))

\* the record values one <tr> of showHome embeds in its three link targets,
\* in the order of the markup (the values it embeds as text are the cells)
homeRowHtml(m, key, data) ==
    LET k == StringValue(key)
    IN  IF m = "indirect"
        THEN << escaped("href", get(data, S_change_id)),
                unescaped("href", get(data, S_patch_revision)),
                unescaped("href", get(data, S_change_id)) >>
        ELSE << escaped("href", k),
                escaped("href", k),
                escaped("href", get(data, S_change_id)) >>

\* the values one <tr> of renderResultsTable embeds in its inline handler
detailRowHtml(result) ==
    << escaped("handler", StringValue(result.logPath)),
       escaped("handler", StringValue(result.name)) >>

\* one <tr> of showHome
homeRow(m, key, data) ==
    LET results == homeResults(data)
        linkId  == IF m = "indirect" THEN get(data, S_change_id) ELSE StringValue(key)
        hashTxt == IF m = "indirect" THEN textOf(get(data, S_patch_revision)) ELSE key
    IN  [src      |-> key,
         href     |-> attributeValue(S_review \o escapeHtml(linkId)),
         logPath  |-> S_empty,
         cells    |-> << S_Link,
                         textOf(get(data, S_subject)),
                         hashTxt,
                         textOf(get(data, S_change_id)),
                         formatTime(parseFloat(get(data, S_time_stamp))),
                         textOf(orElse(get(data, S_total_runtime), StringValue(S_NA))),
                         summarize(enforcedResults(results)),
                         summarize(optionalResults(results)) >>,
         html     |-> homeRowHtml(m, key, data),
         filtered |-> FALSE]

\* one <tr> of renderResultsTable
detailRow(recordKey, result) ==
    [src      |-> recordKey,
     href     |-> <<"#">>,
     logPath  |-> result.logPath,
     cells    |-> << result.name,
                     textOf(orElse(result.description, StringValue(S_Job \o result.name))),
                     IF result.enforced THEN S_Enforced ELSE S_Optional,
                     textOf(orElse(result.runtime, StringValue(S_NA))),
                     IF result.rc = 0 THEN S_PASS ELSE S_FAIL >>,
     html     |-> detailRowHtml(result),
     filtered |-> FALSE]

\* the loop over the results starting one outcome late
renderResultsTable_skipsFirst(recordKey, results) ==
    [i \in 1..(Len(results) - 1) |-> detailRow(recordKey, results[i + 1])]

renderResultsTable(recordKey, results) ==
    [i \in 1..Len(results) |-> detailRow(recordKey, results[i])]

-----------------------------------------------------------------------------
(* The home listing: eligible records, newest first                         *)

\* the required fields without time_stamp
isComplete_noTimeStamp(data) ==
    /\ truthy(get(data, S_patch_revision))
    /\ truthy(get(data, S_change_id))
    /\ truthy(get(data, S_subject))

\* the .filter(...) of showHome on the four required fields
isComplete(data) ==
    /\ truthy(get(data, S_patch_revision))
    /\ truthy(get(data, S_change_id))
    /\ truthy(get(data, S_subject))
    /\ truthy(get(data, S_time_stamp))

\* the keys showHome lists: app.js keeps the keys ending in "_home.html"
listedKey(m, key) == m = "direct" \/ endsWith(key, S_home_html)

\* parseFloat(item.data.time_stamp || 0), the number the comparator reads
\* from an item
sortKey(data) == parseFloat(orElse(get(data, S_time_stamp), NumberValue(0)))

\* the items showHome sorts, each with the number the comparator reads from it
homeItems(m, md) ==
    LET kept == SelectSeq(md.entries, LAMBDA e : listedKey(m, e.key) /\ isComplete(e.data))
    IN  [i \in 1..Len(kept) |->
            [key |-> kept[i].key, data |-> kept[i].data, ts |-> sortKey(kept[i].data)]] \o << >>

\* parseFloat(b.data.time_stamp || 0) - parseFloat(a.data.time_stamp || 0)
compareFn(a, b) == IF b.ts.nan \/ a.ts.nan THEN NaN ELSE Num(b.ts.v - a.ts.v)

\* SortCompare of Array.prototype.sort: a NaN from the comparator counts as +0
sortCompare(a, b) == LET v == compareFn(a, b) IN IF v.nan THEN 0 ELSE v.v

\* ECMAScript's "consistent comparator" over the items being sorted
consistentComparator(items) ==
    LET I == 1..Len(items)
        \* the comparator's verdict on every pair (each computed once)
        c == [i \in I |-> [j \in I |-> sortCompare(items[i], items[j])] \o << >>] \o << >>
    IN  /\ \A i \in I : c[i][i] = 0
        /\ \A i, j \in I : (c[i][j] = 0) => (c[j][i] = 0)
        /\ \A i, j \in I : (c[i][j] < 0) => (c[j][i] > 0)
        /\ \A i, j, k \in I : (c[i][j] = 0 /\ c[j][k] = 0) => (c[i][k] = 0)
        /\ \A i, j, k \in I : (c[i][j] < 0 /\ c[j][k] < 0) => (c[i][k] < 0)
        /\ \A i, j, k \in I : (c[i][j] > 0 /\ c[j][k] > 0) => (c[i][k] > 0)

RECURSIVE insertSorted(_, _)
\* x placed after every element of the sorted sequence s that does not sort after it
insertSorted(s, x) ==
    IF s = << >> THEN <<x>>
    ELSE IF sortCompare(s[Len(s)], x) <= 0 THEN Append(s, x)
    ELSE Append(insertSorted(SubSeq(s, 1, Len(s) - 1), x), s[Len(s)])

RECURSIVE stableSort(_)
stableSort(items) ==
    IF items = << >> THEN << >>
    ELSE insertSorted(stableSort(SubSeq(items, 1, Len(items) - 1)), items[Len(items)])

permutationsOf(items) ==
    LET I == 1..Len(items)
    IN  { [i \in I |-> items[p[i]]] :
            p \in { q \in [I -> I] : \A i, j \in I : (q[i] = q[j]) => (i = j) } }

\* What testRuns.sort(compareFn) can leave: the stable sorted order when the
\* comparator is consistent, an implementation-defined order of the same
\* items when it is not.
sortOutcomes(items) ==
    IF consistentComparator(items) THEN {stableSort(items)} ELSE permutationsOf(items)

homeRows(m, sorted) == [i \in 1..Len(sorted) |-> homeRow(m, sorted[i].key, sorted[i].data)]

-----------------------------------------------------------------------------
(* The page: the fields of app that handlers write, the URL fragment, the   *)
(* queued hashchange events, the DOM below #content and the fetches in      *)
(* flight, as one record a handler maps to its successor.                   *)

NoSelection == [status |-> S_All, enforced |-> S_All, optional |-> S_All]

NoLog == [state |-> "none", text |-> S_empty]

\* <div class="right-panel empty" id="logPanel">Select a test to view logs</div>
EmptyLog == [state |-> "empty", text |-> S_selectTest]

\* #content before anything is rendered
BlankContent ==
    [kind |-> "blank", text |-> S_empty, key |-> S_empty, rows |-> << >>,
     html |-> << >>, sel |-> NoSelection, log |-> NoLog]

NoPending == [status |-> 0, logs |-> << >>, version |-> 0]

\* A log fetch whose #logPanel is no longer in the document: what it writes
\* is never shown, whatever its path
DetachedFetch == [path |-> S_empty, live |-> FALSE]

\* content.innerHTML = ... drops the nodes below #content: a log fetch that
\* holds the old #logPanel writes into a detached node from then on
detach(p) == [p EXCEPT !.logs = [i \in 1..Len(p.logs) |-> DetachedFetch]]

setContent(a, c) == [a EXCEPT !.content = c, !.pending = detach(a.pending)]

\* window.location.hash (getter): "" for no fragment and for an empty one
locationHash(f) == IF f.null \/ f.s = S_empty THEN S_empty ELSE <<"#">> \o f.s

NullFragment == [null |-> TRUE, s |-> S_empty]

Fragment(s) == [null |-> FALSE, s |-> s]

\* every assignment to window.location.hash queues a hashchange event, the
\* one that leaves the fragment as it is included
setHash_alwaysQueues(a, value) ==
    LET f == Fragment(IF value # S_empty /\ Head(value) = "#" THEN Tail(value) ELSE value)
    IN  [a EXCEPT !.fragment = f, !.events = @ + 1]

\* window.location.hash = value: a fragment navigation, which queues a
\* hashchange event unless the URL's fragment is already the one given
setHash(a, value) ==
    LET f == Fragment(IF value # S_empty /\ Head(value) = "#" THEN Tail(value) ELSE value)
    IN  IF f = a.fragment THEN a
        ELSE [a EXCEPT !.fragment = f, !.events = @ + 1]

\* showError(message)
showError(a, message) ==
    setContent(a, [BlankContent EXCEPT !.kind = "error", !.text = message,
                                       !.html = << escaped("text", StringValue(message)) >>])

\* item.data.patch_revision of the .filter(...) of showHome throws a
\* TypeError when a key it lists holds null
throwsOnRecords(m, md) ==
    \E i \in 1..Len(md.entries) :
        listedKey(m, md.entries[i].key) /\ md.entries[i].prim = "null"

\* the radios of the view replaced are written checked again
showHome_keepsSelection(md, a) ==
    LET b == setHash([a EXCEPT !.currentView = "home"], S_empty)
    IN  IF md.shape = "null" THEN {showError(b, S_noMetadata)}
        ELSE IF throwsOnRecords(mode, md) THEN {[b EXCEPT !.thrown = TRUE]}
        ELSE { setContent(b, [BlankContent EXCEPT !.kind = "home",
                                                  !.rows = homeRows(mode, sorted),
                                                  !.sel  = a.content.sel]) :
                 sorted \in sortOutcomes(homeItems(mode, md)) }

\* showHome(): every order the sort can leave gives one successor
showHome(md, a) ==
    LET b == setHash([a EXCEPT !.currentView = "home"], S_empty)
    IN  IF md.shape = "null" THEN {showError(b, S_noMetadata)}
        ELSE IF throwsOnRecords(mode, md) THEN {[b EXCEPT !.thrown = TRUE]}
        ELSE { setContent(b, [BlankContent EXCEPT !.kind = "home",
                                                  !.rows = homeRows(mode, sorted)]) :
                 sorted \in sortOutcomes(homeItems(mode, md)) }

\* showTestDetail(key)
showTestDetail(md, a, key) ==
    LET b    == [a EXCEPT !.currentView = "detail"]
        data == lookup(md, key)
    IN  IF data.t # "object" THEN showError(b, S_noTestData)
        ELSE setContent(b, [BlankContent EXCEPT
                 !.kind = "detail",
                 !.text = textOf(orElse(get(data.data, S_subject), StringValue(S_Unknown))),
                 !.html = << escaped("text", orElse(get(data.data, S_subject),
                                                    StringValue(S_Unknown))) >>,
                 !.key  = key,
                 !.rows = renderResultsTable(key, detailResults(mode, key, data.data)),
                 !.log  = EmptyLog])

\* showReviewByGitHash(gitHash) of part_000
showReviewByGitHash(md, a, gitHash) ==
    IF md.shape # "null" /\ lookup(md, gitHash).t = "object"
    THEN showTestDetail(md, a, gitHash)
    ELSE showError(a, S_notFoundHash \o gitHash \o S_notFound)

\* every key of the store searched, whatever its ending
homeFilesFor_anyKey(md, changeId) ==
    SelectSeq(objectKeys(md),
              LAMBDA path : get(ownData(md, path), S_change_id) = StringValue(changeId))

\* the keys ending in "_home.html" whose record has this change_id, in key order
homeFilesFor(md, changeId) ==
    SelectSeq(objectKeys(md),
              LAMBDA path : /\ endsWith(path, S_home_html)
                            /\ get(ownData(md, path), S_change_id) = StringValue(changeId))

\* data.change_id of the .find(...) of showReviewByChangeId throws a TypeError
\* when a key ending in "_home.html" holds null and no earlier one matches
throwsOnFind(md, found) ==
    \E i \in 1..Len(md.entries) :
        /\ endsWith(md.entries[i].key, S_home_html)
        /\ md.entries[i].prim = "null"
        /\ \A j \in 1..(i - 1) : found = << >> \/ md.entries[j].key # Head(found)

\* showReviewByChangeId(changeId) of app.js
showReviewByChangeId(md, a, changeId) ==
    LET found == homeFilesFor(md, changeId)
    IN  IF throwsOnFind(md, found) THEN [a EXCEPT !.thrown = TRUE]
        ELSE IF found # << >> /\ Head(found) # S_empty
        THEN showTestDetail(md, a, Head(found))
        ELSE showError(a, S_notFoundChange \o changeId \o S_notFound)

\* showStatus(), up to its await: the fetch of status.txt is started
showStatus(a) ==
    LET b == setHash([a EXCEPT !.currentView = "status"], S_status)
        c == setContent(b, [BlankContent EXCEPT !.kind = "loading"])
    IN  [c EXCEPT !.pending.status = @ + 1]

\* handleRoute()
handleRoute(md, a) ==
    LET hash == locationHash(a.fragment)
    IN  IF startsWith(hash, S_review)
        THEN LET id == substring(hash, Len(S_review))
             IN  IF mode = "direct" THEN {showReviewByGitHash(md, a, id)}
                 ELSE {showReviewByChangeId(md, a, id)}
        ELSE IF hash = S_status THEN {showStatus(a)}
        ELSE showHome(md, a)

\* getRowStatus(row), getRowEnforcedStatus(row), getRowOptionalStatus(row):
\* the text of td:nth-child(n), "" when the row has no such cell
cellText(row, n) == IF n <= Len(row.cells) THEN row.cells[n] ELSE S_empty

\* rows are hidden and never shown again
updateFilter_neverUnhides(a) ==
    LET filterValue == a.content.sel.status
        rows        == a.content.rows
    IN  IF a.content.kind # "detail" THEN a
        ELSE [a EXCEPT !.content.rows =
                 [i \in 1..Len(rows) |->
                    [rows[i] EXCEPT !.filtered =
                        @ \/ ~(filterValue = S_All \/ cellText(rows[i], 5) = filterValue)]]]

\* updateFilter(): the rows of .test-results-table against the checked
\* statusfilter radio
updateFilter(a) ==
    LET filterValue == a.content.sel.status
        rows        == a.content.rows
    IN  IF a.content.kind # "detail" THEN a
        ELSE [a EXCEPT !.content.rows =
                 [i \in 1..Len(rows) |->
                    [rows[i] EXCEPT !.filtered =
                        ~(filterValue = S_All \/ cellText(rows[i], 5) = filterValue)]]]

\* the rows that do not match are taken out of the table
updateHomeFilter_removesRows(a) ==
    LET enforcedFilter == a.content.sel.enforced
        optionalFilter == a.content.sel.optional
    IN  IF a.content.kind \notin {"home", "detail"} THEN a
        ELSE [a EXCEPT !.content.rows =
                 SelectSeq(@, LAMBDA row :
                    /\ (enforcedFilter = S_All \/ cellText(row, 7) = enforcedFilter)
                    /\ (optionalFilter = S_All \/ cellText(row, 8) = optionalFilter))]

\* a row is kept when either radio group accepts it
updateHomeFilter_eitherAxis(a) ==
    LET enforcedFilter == a.content.sel.enforced
        optionalFilter == a.content.sel.optional
        rows           == a.content.rows
    IN  IF a.content.kind \notin {"home", "detail"} THEN a
        ELSE [a EXCEPT !.content.rows =
                 [i \in 1..Len(rows) |->
                    [rows[i] EXCEPT !.filtered =
                        ~( \/ (enforcedFilter = S_All \/ cellText(rows[i], 7) = enforcedFilter)
                           \/ (optionalFilter = S_All \/ cellText(rows[i], 8) = optionalFilter) )]]]

\* updateHomeFilter() of part_000: the rows of the first table against the two
\* checked radios
updateHomeFilter(a) ==
    LET enforcedFilter == a.content.sel.enforced
        optionalFilter == a.content.sel.optional
        rows           == a.content.rows
    IN  IF a.content.kind \notin {"home", "detail"} THEN a
        ELSE [a EXCEPT !.content.rows =
                 [i \in 1..Len(rows) |->
                    [rows[i] EXCEPT !.filtered =
                        ~( /\ (enforcedFilter = S_All \/ cellText(rows[i], 7) = enforcedFilter)
                           /\ (optionalFilter = S_All \/ cellText(rows[i], 8) = optionalFilter) )]]]

\* showLog(logPath, testName), up to its await: the panel shows "Loading..."
\* and the fetch of the log is started
showLog(a, logPath) ==
    IF a.content.log.state = "none" THEN a
    ELSE [a EXCEPT !.content.log = [state |-> "loading", text |-> S_Loading],
                   !.pending.logs = Append(@, [path |-> logPath, live |-> TRUE])]

-----------------------------------------------------------------------------
(* Bounds of the model, and the inputs the checks draw from                 *)

MaxInFlight      == 2   \* hashchange events queued and fetches of status.txt
                        \* and of logs in flight, together
MaxRecords       == 2   \* entries of a generated snapshot
MaxOutcomes      == 2   \* result fields of a record

S_abc123  == <<"a","b","c","1","2","3">>
S_def456  == <<"d","e","f","4","5","6">>
S_100     == <<"1","0","0">>
S_200     == <<"2","0","0">>
S_FixBug  == <<"F","i","x"," ","b","u","g">>
S_epoch   == <<"1","7","0","0","0","0","0","0","0","0">>
S_5       == <<"5">>
S_7       == <<"7">>
S_late    == <<"l","a","t","e">>
S_0       == <<"0">>
S_1       == <<"1">>
S_abort   == <<"a","b","o","r","t">>
S_Build   == <<"B","u","i","l","d">>
S_UnitTest == <<"U","n","i","t"," ","T","e","s","t">>
S_Lint    == <<"L","i","n","t">>
S_Docs    == <<"D","o","c","s">>
S_foo     == <<"f","o","o">>
S_doesnotexist == <<"d","o","e","s","n","o","t","e","x","i","s","t">>
S_12s     == <<"1","2","s">>
S_statusText == <<"i","d","l","e">>
S_v1      == <<"v","1"," ","(","a","b","c",")">>

\* record keys: two git hashes and two paths ending in "_home.html"
K_100home == S_100 \o S_home_html
K_200home == S_install \o S_200 \o S_home_html

Keys == <<K_200home, S_abc123, K_100home, S_def456>>

dropAbsent(fields) == SelectSeq(fields, LAMBDA f : f.val.t # "undefined")

\* a record from its four required fields (undefined: the field is absent)
\* and its other fields
makeRecord(rev, cid, subj, ts, more) ==
    dropAbsent(<< Field(S_patch_revision, rev), Field(S_change_id, cid),
                  Field(S_subject, subj), Field(S_time_stamp, ts) >>) \o more

outcomeFields(name, val, enf) ==
    dropAbsent(<< Field(S_result \o name, val), Field(S_enforced \o name, enf) >>)

BuildPasses == outcomeFields(S_Build, StringValue(S_0), StringValue(S_True))

\* the record of the direct-key scenario
FixBugRecord ==
    makeRecord(StringValue(S_abc123), StringValue(S_100), StringValue(S_FixBug),
               StringValue(S_epoch), BuildPasses)

\* a record with a passing enforced outcome and a failing optional one
MixedRecord(cid, ts) ==
    makeRecord(StringValue(S_def456), StringValue(cid), StringValue(S_FixBug), StringValue(ts),
               BuildPasses
               \o outcomeFields(S_UnitTest, StringValue(S_abort), undefined)
               \o << Field(S_runtime \o S_UnitTest, StringValue(S_12s)) >>)

\* a complete record with no outcome
PlainRecord(cid, ts) ==
    makeRecord(StringValue(S_abc123), StringValue(cid), StringValue(S_FixBug), StringValue(ts),
               << >>)

\* the snapshots a session is run on
SampleStores ==
    { << Entry(S_abc123, FixBugRecord) >>,
      << Entry(K_100home, MixedRecord(S_100, S_5)),
         Entry(S_abc123, FixBugRecord),
         Entry(K_200home, PlainRecord(S_100, S_7)) >> }

\* identifiers a fragment review/<id> is opened with
RouteIds == {S_abc123, S_100, S_constructor, S_doesnotexist}

FragmentTexts ==
    {S_empty, Tail(S_status), S_foo} \cup { Tail(S_review) \o id : id \in RouteIds }

Selections == {S_PASS, S_FAIL, S_All}

\* the body the server holds under a log path
logText(path) == <<"l","o","g"," ","o","f"," ">> \o path

-----------------------------------------------------------------------------
(* The state machine                                                        *)

\* the fragment was not set by a link of the home listing
NoLink == [set |-> FALSE, src |-> S_empty]

\* the fragment was set by the link of the row rendered from the record src
Link(src) == [set |-> TRUE, src |-> src]

\* thrown: the handler ended in an uncaught TypeError, after the writes made
\* up to there
page ==
    [currentView |-> currentView, fragment |-> fragment, events |-> events,
     content |-> content, pending |-> pending, thrown |-> FALSE]

become(a) ==
    /\ currentView' = a.currentView
    /\ fragment' = a.fragment
    /\ events' = a.events
    /\ content' = a.content
    /\ pending' = a.pending
    /\ followed' = IF a.fragment = fragment THEN followed ELSE NoLink

withinBounds(a) ==
    /\ a.events + a.pending.status + Len(a.pending.logs) <= MaxInFlight

\* The page as the document is loaded: DOMContentLoaded has called init(),
\* which awaits loadMetadata()
Init ==
    /\ mode \in {"direct", "indirect"}
    /\ pc = "loading"
    /\ metadata = NullMetadata
    /\ currentView = "home"
    /\ fragment \in {NullFragment} \cup { Fragment(s) : s \in FragmentTexts }
    /\ events = 0
    /\ content = BlankContent
    /\ pending = NoPending
    /\ versionInfo = S_empty
    /\ lastOp = "DOMContentLoaded"
    /\ discarded = NoSelection
    /\ followed = NoLink

\* loadMetadata() resolves and stores the JSON value md; init() goes on:
\* loadVersion() (part_000), handleRoute(), and the hashchange listener is
\* registered; a TypeError thrown by handleRoute() is caught: the error is
\* shown and no listener registered
LoadSnapshot(md) ==
    /\ pc = "loading"
    /\ LET a0 == IF mode = "direct" THEN [page EXCEPT !.pending.version = @ + 1] ELSE page
       IN  \E a \in handleRoute(md, a0) :
              /\ withinBounds(a)
              /\ become(IF a.thrown THEN showError(a, S_initFailed) ELSE a)
              /\ pc' = IF a.thrown THEN "failed" ELSE "ready"
              /\ lastOp' = IF a.thrown THEN "initFailed" ELSE "init"
    /\ metadata' = md
    /\ discarded' = content.sel
    /\ UNCHANGED <<mode, versionInfo>>

\* the snapshot is a JSON object, the store
LoadMetadataOk(store) == LoadSnapshot(ObjectMetadata(store))

\* loadMetadata() throws (the fetch fails, or the response is not ok): init()
\* shows the error and registers no listener
LoadMetadataFail ==
    /\ pc = "loading"
    /\ become(showError(page, S_initFailed))
    /\ pc' = "failed"
    /\ lastOp' = "initFailed"
    /\ discarded' = content.sel
    /\ UNCHANGED <<mode, metadata, versionInfo>>

\* the user opens a fragment (a link of the page, or the address bar)
UserNavigate(s) ==
    /\ Fragment(s) # fragment
    /\ withinBounds(setHash(page, s))
    /\ become(setHash(page, s))
    /\ lastOp' = "navigate"
    /\ discarded' = NoSelection
    /\ UNCHANGED <<mode, pc, metadata, versionInfo>>

\* the listener is registered before loadMetadata() is awaited: it handles
\* the event whether or not init() went through
DispatchHashChange_alwaysHeard ==
    /\ events > 0
    /\ LET a0 == [page EXCEPT !.events = @ - 1]
       IN  /\ \E a \in handleRoute(metadata, a0) : withinBounds(a) /\ become(a)
           /\ lastOp' = IF pc = "ready" THEN "handleRoute" ELSE "unheard"
           /\ discarded' = content.sel
    /\ UNCHANGED <<mode, pc, metadata, versionInfo>>

\* a queued hashchange event is dispatched: () => this.handleRoute() when
\* init() has registered the listener, nothing otherwise
DispatchHashChange ==
    /\ events > 0
    /\ LET a0 == [page EXCEPT !.events = @ - 1]
       IN  IF pc = "ready"
           THEN /\ \E a \in handleRoute(metadata, a0) : withinBounds(a) /\ become(a)
                /\ lastOp' = "handleRoute"
                /\ discarded' = content.sel
           ELSE /\ become(a0)
                /\ lastOp' = "unheard"
                /\ discarded' = NoSelection
    /\ UNCHANGED <<mode, pc, metadata, versionInfo>>

\* leaving a detail view drops its record from the store
ClickBackToHome_forgetsRecord ==
    /\ content.kind = "detail"
    /\ \E a \in showHome(metadata, page) : withinBounds(a) /\ become(a)
    /\ metadata' = [metadata EXCEPT !.entries = SelectSeq(@, LAMBDA e : e.key # content.key)]
    /\ lastOp' = "showHome"
    /\ discarded' = content.sel
    /\ UNCHANGED <<mode, pc, versionInfo>>

\* the "Back to Home" link of the detail view: onclick="app.showHome(); return false;"
ClickBackToHome ==
    /\ content.kind = "detail"
    /\ \E a \in showHome(metadata, page) : withinBounds(a) /\ become(a)
    /\ lastOp' = "showHome"
    /\ discarded' = content.sel
    /\ UNCHANGED <<mode, pc, metadata, versionInfo>>

\* a statusfilter radio of the detail view is checked: onchange="app.updateFilter()"
SelectFilter(f) ==
    /\ content.kind = "detail"
    /\ content.sel.status # f
    /\ become(updateFilter([page EXCEPT !.content.sel.status = f]))
    /\ lastOp' = "updateFilter"
    /\ discarded' = NoSelection
    /\ UNCHANGED <<mode, pc, metadata, versionInfo>>

\* a radio of the home view of part_000 is checked: onchange="app.updateHomeFilter()"
SelectHomeFilter(axis, f) ==
    /\ mode = "direct"
    /\ content.kind = "home"
    /\ content.sel[axis] # f
    /\ become(updateHomeFilter([page EXCEPT !.content.sel[axis] = f]))
    /\ lastOp' = "updateHomeFilter"
    /\ discarded' = NoSelection
    /\ UNCHANGED <<mode, pc, metadata, versionInfo>>

\* a test name of the detail table is clicked: onclick="app.showLog(...)"
ClickTest(i) ==
    /\ content.kind = "detail"
    /\ i \in 1..Len(content.rows)
    /\ withinBounds(showLog(page, content.rows[i].logPath))
    /\ become(showLog(page, content.rows[i].logPath))
    /\ lastOp' = "showLog"
    /\ discarded' = NoSelection
    /\ UNCHANGED <<mode, pc, metadata, versionInfo>>

\* showStatus() after its await: the status text, or the error, goes into #content
ResolveStatus(ok) ==
    /\ pending.status > 0
    /\ LET a0 == [page EXCEPT !.pending.status = @ - 1]
       IN  become(IF ok
                  THEN setContent(a0, [BlankContent EXCEPT !.kind = "status",
                                                           !.text = S_statusText])
                  ELSE showError(a0, S_statusFailed))
    /\ lastOp' = "statusResolved"
    /\ discarded' = content.sel
    /\ UNCHANGED <<mode, pc, metadata, versionInfo>>

\* the panel is looked up again after the await: the text goes into whatever
\* #logPanel the document holds by then
ResolveLog_panelLookedUpAgain(i, ok) ==
    /\ i \in 1..Len(pending.logs)
    /\ LET req  == pending.logs[i]
           rest == [j \in 1..(Len(pending.logs) - 1) |->
                       IF j < i THEN pending.logs[j] ELSE pending.logs[j + 1]]
           a0   == [page EXCEPT !.pending.logs = rest]
       IN  become(IF content.log.state # "none"
                  THEN [a0 EXCEPT !.content.log =
                           IF ok THEN [state |-> "text", text |-> logText(req.path)]
                           ELSE [state |-> "error", text |-> S_logFailed \o req.path]]
                  ELSE a0)
    /\ lastOp' = "logResolved"
    /\ discarded' = NoSelection
    /\ UNCHANGED <<mode, pc, metadata, versionInfo>>

\* only the fetch requested last may write: an older one is dropped
ResolveLog_latestRequestWins(i, ok) ==
    /\ i \in 1..Len(pending.logs)
    /\ LET req  == pending.logs[i]
           rest == [j \in 1..(Len(pending.logs) - 1) |->
                       IF j < i THEN pending.logs[j] ELSE pending.logs[j + 1]]
           a0   == [page EXCEPT !.pending.logs = rest]
       IN  become(IF req.live /\ i = Len(pending.logs)
                  THEN [a0 EXCEPT !.content.log =
                           IF ok THEN [state |-> "text", text |-> logText(req.path)]
                           ELSE [state |-> "error", text |-> S_logFailed \o req.path]]
                  ELSE a0)
    /\ lastOp' = "logResolved"
    /\ discarded' = NoSelection
    /\ UNCHANGED <<mode, pc, metadata, versionInfo>>

\* showLog() after its await: the text, or the error, goes into the
\* .log-content of the #logPanel the call found, which may be detached by now
ResolveLog(i, ok) ==
    /\ i \in 1..Len(pending.logs)
    /\ LET req  == pending.logs[i]
           rest == [j \in 1..(Len(pending.logs) - 1) |->
                       IF j < i THEN pending.logs[j] ELSE pending.logs[j + 1]]
           a0   == [page EXCEPT !.pending.logs = rest]
       IN  become(IF req.live
                  THEN [a0 EXCEPT !.content.log =
                           IF ok THEN [state |-> "text", text |-> logText(req.path)]
                           ELSE [state |-> "error", text |-> S_logFailed \o req.path]]
                  ELSE a0)
    /\ lastOp' = "logResolved"
    /\ discarded' = NoSelection
    /\ UNCHANGED <<mode, pc, metadata, versionInfo>>

\* loadVersion() after its await: #version-info is filled when the response
\* is ok and holds a tag and a commit
ResolveVersion(ok) ==
    /\ pending.version > 0
    /\ become([page EXCEPT !.pending.version = @ - 1])
    /\ versionInfo' = IF ok THEN S_v1 ELSE versionInfo
    /\ lastOp' = "versionResolved"
    /\ discarded' = NoSelection
    /\ UNCHANGED <<mode, pc, metadata>>

Next ==
    \/ \E store \in SampleStores : LoadMetadataOk(store)
    \/ LoadMetadataFail
    \/ \E s \in FragmentTexts : UserNavigate(s)
    \/ DispatchHashChange
    \/ ClickBackToHome
    \/ \E f \in Selections : SelectFilter(f)
    \/ \E axis \in {"enforced", "optional"}, f \in Selections : SelectHomeFilter(axis, f)
    \/ \E i \in 1..MaxOutcomes : ClickTest(i)
    \/ \E ok \in BOOLEAN : ResolveStatus(ok)
    \/ \E i \in 1..MaxInFlight, ok \in BOOLEAN : ResolveLog(i, ok)
    \/ \E ok \in BOOLEAN : ResolveVersion(ok)

Spec == Init /\ [][Next]_vars

-----------------------------------------------------------------------------
(* Opening the page on any snapshot of the bounded domain: init() alone,    *)
(* with the hashchange that showHome's own write of the fragment queues.    *)

OutcomeNames == <<S_Build, S_UnitTest, S_Lint, S_Docs>>

ResultValues == {StringValue(S_0), StringValue(S_1), StringValue(S_abort)}

EnforcedValues == {undefined, StringValue(S_True), BooleanValue(TRUE)}

RECURSIVE outcomeFieldSeqs(_)
\* the result/enforced fields of up to n outcomes
outcomeFieldSeqs(n) ==
    IF n = 0 THEN { << >> }
    ELSE LET shorter == outcomeFieldSeqs(n - 1)
         IN  shorter \cup
             { fs \o outcomeFields(OutcomeNames[n], v, e) :
                 fs \in { g \in shorter : Len(resultKeys(g)) = n - 1 },
                 v \in ResultValues, e \in EnforcedValues }

CompleteRecord(more) ==
    makeRecord(StringValue(S_abc123), StringValue(S_100), StringValue(S_FixBug),
               StringValue(S_5), more)

\* absent, empty, and the number zero
FalsyValues == {undefined, StringValue(S_empty), NumberValue(0)}

\* records in which one required field is absent, empty or zero
IncompleteRecords ==
    { makeRecord(v, StringValue(S_100), StringValue(S_FixBug), StringValue(S_5), BuildPasses) :
        v \in FalsyValues }
    \cup
    { makeRecord(StringValue(S_abc123), v, StringValue(S_FixBug), StringValue(S_5), BuildPasses) :
        v \in FalsyValues }
    \cup
    { makeRecord(StringValue(S_abc123), StringValue(S_100), v, StringValue(S_5), BuildPasses) :
        v \in FalsyValues }
    \cup
    { makeRecord(StringValue(S_abc123), StringValue(S_100), StringValue(S_FixBug), v, BuildPasses) :
        v \in FalsyValues }

\* records that differ in change_id and time_stamp ("late" parses to NaN)
SortRecords ==
    { PlainRecord(S_100, S_5), PlainRecord(S_100, S_7),
      PlainRecord(S_200, S_late), MixedRecord(S_200, S_7) }

KeySet == { Keys[i] : i \in 1..Len(Keys) }

RECURSIVE keySeqs(_)
\* the sequences of n distinct keys
keySeqs(n) ==
    IF n = 0 THEN { << >> }
    ELSE { s \in { Append(ks, k) : ks \in keySeqs(n - 1), k \in KeySet } :
             \A i \in 1..(n - 1) : s[i] # s[n] }

\* snapshots of n entries: any distinct keys in any order, any of SortRecords
sortStores(n) ==
    { [i \in 1..n |-> Entry(ks[i], rs[i])] : ks \in keySeqs(n), rs \in [1..n -> SortRecords] }

\* a number as time_stamp, and the time stamp of the direct-key scenario
OtherTimeStamps == {NumberValue(7), StringValue(S_epoch)}

\* other representations of the enforced flag than "True" and true
OtherEnforcedValues ==
    { StringValue(S_true), StringValue(S_false), NumberValue(0), NumberValue(1),
      BooleanValue(FALSE) }

\* records with one outcome flagged by another representation, passing or
\* failing, next to one that passes and is flagged "True"
EnforcedRecords ==
    { CompleteRecord(outcomeFields(S_Build, v, e)
                     \o outcomeFields(S_UnitTest, StringValue(S_0), StringValue(S_True))) :
        v \in {StringValue(S_0), StringValue(S_1)}, e \in OtherEnforcedValues }

SingleRecords ==
    IncompleteRecords
    \cup { CompleteRecord(fs) : fs \in outcomeFieldSeqs(MaxOutcomes) }
    \cup EnforcedRecords
    \cup { makeRecord(StringValue(S_abc123), StringValue(S_200), StringValue(S_FixBug), ts, << >>) :
             ts \in OtherTimeStamps }

\* three records whose time stamps make the comparator inconsistent: "late"
\* compares equal to both 5 and 7
InconsistentStore ==
    << Entry(K_100home, PlainRecord(S_100, S_5)),
       Entry(K_200home, PlainRecord(S_200, S_late)),
       Entry(S_abc123, PlainRecord(S_100, S_7)) >>

S_markup     == <<"<","b",">">>
S_quoted     == <<"a","\"","b">>
S_ampersand  == <<"1","&","2">>
S_apostrophe == <<"x","'","y">>

\* a record whose values hold the characters markup gives a meaning to
MarkupRecord ==
    makeRecord(StringValue(S_quoted), StringValue(S_ampersand), StringValue(S_markup),
               StringValue(S_5), outcomeFields(S_apostrophe, StringValue(S_0), undefined))

MarkupStores ==
    { << Entry(K_100home, MarkupRecord) >>, << Entry(S_apostrophe, MarkupRecord) >>,
      << Entry(S_quoted, MarkupRecord) >> }

\* the snapshots the page is opened on
Stores ==
    SampleStores
    \cup { << >>, InconsistentStore }
    \cup MarkupStores
    \cup { << Entry(K_200home, r) >> : r \in SingleRecords }
    \cup { << Entry(K_100home, r), Entry(K_200home, CompleteRecord(BuildPasses)) >> :
             r \in IncompleteRecords }
    \cup UNION { sortStores(n) : n \in 2..MaxRecords }

RenderRouteIds ==
    KeySet \cup {S_100, S_200, S_constructor, S_doesnotexist, S_ampersand, S_apostrophe}

RenderFragmentTexts ==
    {S_empty, Tail(S_status), S_foo} \cup { Tail(S_review) \o id : id \in RenderRouteIds }

RenderInit ==
    /\ mode \in {"direct", "indirect"}
    /\ pc = "loading"
    /\ metadata = NullMetadata
    /\ currentView = "home"
    /\ fragment \in {NullFragment} \cup { Fragment(s) : s \in RenderFragmentTexts }
    /\ events = 0
    /\ content = BlankContent
    /\ pending = NoPending
    /\ versionInfo = S_empty
    /\ lastOp = "DOMContentLoaded"
    /\ discarded = NoSelection
    /\ followed = NoLink

RenderNext ==
    \/ \E store \in Stores : LoadMetadataOk(store)
    \/ DispatchHashChange

RenderSpec == RenderInit /\ [][RenderNext]_vars

-----------------------------------------------------------------------------
(* Opening the page on a snapshot whose body is JSON of another shape than  *)
(* an object of objects.                                                    *)

MalformedSnapshots ==
    { NullMetadata, ScalarMetadata,
      ArrayMetadata(<< >>),
      ArrayMetadata(<< Entry(S_0, FixBugRecord) >>),
      ArrayMetadata(<< Entry(S_0, FixBugRecord), NullEntry(S_1) >>) }
    \cup { ObjectMetadata(<< e >>) :
             e \in { NullEntry(S_abc123), NullEntry(K_100home),
                     ScalarEntry(S_abc123), ScalarEntry(K_100home) } }
    \cup { ObjectMetadata(<< e, Entry(K_200home, MixedRecord(S_100, S_7)) >>) :
             e \in { NullEntry(S_abc123), NullEntry(K_100home), ScalarEntry(K_100home) } }
    \cup { ObjectMetadata(<< Entry(K_200home, MixedRecord(S_100, S_7)), e >>) :
             e \in { NullEntry(S_abc123), NullEntry(K_100home), ScalarEntry(S_abc123) } }

ShapeNext ==
    \/ \E md \in MalformedSnapshots : LoadSnapshot(md)
    \/ DispatchHashChange

ShapeSpec == RenderInit /\ [][ShapeNext]_vars

-----------------------------------------------------------------------------
(* Following the links of the home listing: the page is opened on Home,     *)
(* and the user clicks the "Link" of a row.                                 *)

\* <a href="#review/...">Link</a> of row n is clicked: the browser navigates
\* to the fragment the href holds
ClickLink(n) ==
    /\ content.kind = "home"
    /\ n \in 1..Len(content.rows)
    /\ LET a == setHash(page, content.rows[n].href)
       IN  /\ a.fragment # fragment
           /\ withinBounds(a)
           /\ currentView' = a.currentView
           /\ fragment' = a.fragment
           /\ events' = a.events
           /\ content' = a.content
           /\ pending' = a.pending
    /\ followed' = Link(content.rows[n].src)
    /\ lastOp' = "navigate"
    /\ discarded' = NoSelection
    /\ UNCHANGED <<mode, pc, metadata, versionInfo>>

\* the page is opened with no fragment or an empty one
LinkInit == RenderInit /\ locationHash(fragment) = S_empty

\* the snapshots whose links are followed: those of a session, those with
\* markup characters, and every store of up to MaxRecords of SortRecords,
\* two of which share a change_id
LinkStores ==
    SampleStores \cup MarkupStores \cup UNION { sortStores(n) : n \in 1..MaxRecords }

LinkNext ==
    \/ \E store \in LinkStores : LoadMetadataOk(store)
    \/ DispatchHashChange
    \/ \E n \in 1..(MaxRecords + 1) : ClickLink(n)

LinkSpec == LinkInit /\ [][LinkNext]_vars

-----------------------------------------------------------------------------
(* Routing on its own: the fragment is changed from outside only when no    *)
(* hashchange event is queued, and the event loop dispatches every queued   *)
(* event.                                                                   *)

\* the user opens a fragment while the page is at rest
RouteNavigate(s) == events = 0 /\ UserNavigate(s)

\* the user goes back to Home while the page is at rest
RouteBackToHome == events = 0 /\ ClickBackToHome

\* Snapshots for routing, which reads of a record only that it is there and,
\* in app.js, its change_id: an empty store, and one whose records hold
\* nothing else (Home lists none of them, Detail shows them without rows)
RouteStores ==
    { << >>,
      << Entry(S_abc123, << >>),
         Entry(K_100home, << Field(S_change_id, StringValue(S_100)) >>) >> }

RouteNext ==
    \/ \E store \in RouteStores : LoadMetadataOk(store)
    \/ LoadMetadataFail
    \/ \E s \in FragmentTexts : RouteNavigate(s)
    \/ RouteBackToHome
    \/ DispatchHashChange
    \/ \E ok \in BOOLEAN : ResolveStatus(ok)

\* a queued hashchange event is a task of the event loop, which runs it
RouteSpec == Init /\ [][RouteNext]_vars /\ WF_vars(DispatchHashChange)

-----------------------------------------------------------------------------

(* What the claims speak of                                                 *)

\* handleRoute() has just run: from init(), or for a hashchange event
routed == lastOp \in {"init", "handleRoute"}

currentHash == locationHash(fragment)

\* the <id> of a fragment review/<id>
requestedId == substring(currentHash, Len(S_review))

reviewRequested == routed /\ startsWith(currentHash, S_review)

entries == metadata.entries

\* the positions of the snapshot whose record the identifier stands for
matches(id) ==
    IF mode = "direct"
    THEN { i \in 1..Len(entries) : entries[i].key = id }
    ELSE { i \in 1..Len(entries) :
             /\ endsWith(entries[i].key, S_home_html)
             /\ get(entries[i].data, S_change_id) = StringValue(id) }

minimum(S) == CHOOSE i \in S : \A j \in S : i <= j

contains(text, part) ==
    \E k \in 0..(Len(text) - Len(part)) : SubSeq(text, k + 1, k + Len(part)) = part

RequiredFields == {S_patch_revision, S_change_id, S_subject, S_time_stamp}

absentOrEmpty(data, f) == ~hasOwn(data, f) \/ get(data, f) = StringValue(S_empty)

\* the record a row was rendered from
recordOf(row) == ownData(metadata, row.src)

\* the fields of a record that hold a result, by position
resultPositions(data) == { i \in 1..Len(data) : startsWith(data[i].name, S_result) }

\* the n-th position of a set of positions
nth(S, n) == CHOOSE i \in S : Cardinality({ j \in S : j < i }) = n - 1

outcomeName(data, i) == substring(data[i].name, Len(S_result))

passes(data, i) == parseInt(data[i].val) = Num(0)

enforcedAt(data, i) ==
    get(data, S_enforced \o outcomeName(data, i)) \in {StringValue(S_True), BooleanValue(TRUE)}

\* the summary of a set of result positions of a record
summaryOf(data, S) ==
    IF S = {} THEN S_NA
    ELSE IF \A i \in S : passes(data, i) THEN S_PASS
    ELSE S_FAIL

\* the parsed time stamp of the record of a row
rowTime(row) == parseFloat(get(recordOf(row), S_time_stamp))

\* a >= b, an unparseable time stamp counting as the oldest
notOlder(a, b) == b.nan \/ (~a.nan /\ a.v >= b.v)

-----------------------------------------------------------------------------
\* C1: after a fragment-change event has been handled the view is the one the
\* current fragment selects: Home for the empty fragment, Status for
\* "status", and for review/<id> the Detail view of the record <id> resolves
\* to, or the Error view when it resolves to none.
C1_RouteSelectsView ==
    (lastOp = "handleRoute") =>
        /\ (currentHash = S_empty) => (content.kind = "home")
        /\ (currentHash = S_status) => (content.kind = "loading")
        /\ startsWith(currentHash, S_review) =>
              IF matches(requestedId) = {}
              THEN content.kind = "error"
              ELSE /\ content.kind = "detail"
                   /\ content.key = entries[minimum(matches(requestedId))].key

\* C2: routing review/<id> for an <id> that resolves to no record shows the
\* Error view, whose message holds <id>, and no Detail view.
C2_UnresolvableIdShowsError ==
    (reviewRequested /\ matches(requestedId) = {}) =>
        /\ content.kind = "error"
        /\ contains(content.text, requestedId)

\* C3: with direct keys, routing review/k for a key k of the store shows
\* Detail(k), its table holding one row per result field of the record under
\* k, in order, with that outcome's name, type and status; the record of the
\* direct-key scenario gives the single row Build / Enforced / PASS.
C3_DirectKeyShowsItsRecord ==
    (mode = "direct" /\ reviewRequested /\ hasOwnKey(metadata, requestedId)) =>
        LET data == ownData(metadata, requestedId)
            R    == resultPositions(data)
        IN  /\ content.kind = "detail"
            /\ content.key = requestedId
            /\ Len(content.rows) = Cardinality(R)
            /\ \A n \in 1..Len(content.rows) :
                  LET i == nth(R, n)
                  IN  /\ content.rows[n].cells[1] = outcomeName(data, i)
                      /\ content.rows[n].cells[3] =
                            IF enforcedAt(data, i) THEN S_Enforced ELSE S_Optional
                      /\ content.rows[n].cells[5] =
                            IF passes(data, i) THEN S_PASS ELSE S_FAIL
            /\ (data = FixBugRecord) =>
                  /\ Len(content.rows) = 1
                  /\ content.rows[1].cells =
                        << S_Build, S_Job \o S_Build, S_Enforced, S_NA, S_PASS >>

C3_Witness ==
    /\ mode = "direct"
    /\ reviewRequested
    /\ requestedId = S_abc123
    /\ hasOwnKey(metadata, S_abc123)
    /\ ownData(metadata, S_abc123) = FixBugRecord
    /\ content.kind = "detail"

\* C4: with indirect keys, routing review/<id> shows the Detail view of the
\* first key, in the store's key order, that ends in "_home.html" and whose
\* record has change_id <id>; a key without that ending is never shown, even
\* when its change_id is <id>.
C4_IndirectKeyFirstMatch ==
    (mode = "indirect" /\ reviewRequested) =>
        IF matches(requestedId) = {}
        THEN content.kind # "detail"
        ELSE /\ content.kind = "detail"
             /\ content.key = entries[minimum(matches(requestedId))].key
             /\ endsWith(content.key, S_home_html)

\* two keys ending in the marker hold the change id, after a key that holds
\* it too and does not end in the marker
C4_Witness ==
    /\ mode = "indirect"
    /\ reviewRequested
    /\ content.kind = "detail"
    /\ Cardinality(matches(requestedId)) >= 1
    /\ \E j \in 1..Len(entries) :
          /\ j < minimum(matches(requestedId))
          /\ ~endsWith(entries[j].key, S_home_html)
          /\ get(entries[j].data, S_change_id) = StringValue(requestedId)

\* C5: the home listing has no row for a record in which patch_revision,
\* change_id, subject or time_stamp is absent or empty.
C5_HomeOmitsIncompleteRecords ==
    (content.kind = "home") =>
        \A i \in 1..Len(entries) :
            (\E f \in RequiredFields : absentOrEmpty(entries[i].data, f)) =>
                \A n \in 1..Len(content.rows) : content.rows[n].src # entries[i].key

\* a listing of one row over a store that also holds an incomplete record
\* under a key the listing takes
C5_Witness ==
    /\ content.kind = "home"
    /\ Len(content.rows) = 1
    /\ \E i \in 1..Len(entries) :
          /\ listedKey(mode, entries[i].key)
          /\ \E f \in RequiredFields : absentOrEmpty(entries[i].data, f)

\* C6: the rows of the home view are in non-increasing order of their
\* records' parsed time_stamp.
C6_HomeRowsNewestFirst ==
    (content.kind = "home") =>
        \A n \in 1..(Len(content.rows) - 1) :
            notOlder(rowTime(content.rows[n]), rowTime(content.rows[n + 1]))

\* C7: a record whose time_stamp does not parse is listed after every record
\* whose time_stamp parses, and those are in non-increasing order.
C7_UnparseableTimeStampLast ==
    (content.kind = "home") =>
        \A n, k \in 1..Len(content.rows) :
            (n < k) =>
                LET a == rowTime(content.rows[n])
                    b == rowTime(content.rows[k])
                IN  /\ a.nan => b.nan
                    /\ (~a.nan /\ ~b.nan) => (a.v >= b.v)

\* C8: the Enforced summary of a home row is N/A when the record has no
\* enforced outcome, PASS when it has some and all have return code 0, FAIL
\* otherwise; the Optional summary is the same over the other outcomes.
C8_SummariesPerClass ==
    (content.kind = "home") =>
        \A n \in 1..Len(content.rows) :
            LET data == recordOf(content.rows[n])
                E    == { i \in resultPositions(data) : enforcedAt(data, i) }
                O    == resultPositions(data) \ E
            IN  /\ content.rows[n].cells[7] = summaryOf(data, E)
                /\ content.rows[n].cells[8] = summaryOf(data, O)

\* a row whose record has a passing enforced outcome and a failing optional one
C8_Witness ==
    /\ content.kind = "home"
    /\ \E n \in 1..Len(content.rows) :
          /\ content.rows[n].cells[7] = S_PASS
          /\ content.rows[n].cells[8] = S_FAIL

\* C9: after the detail filter is applied with selection f, a row is marked
\* filtered iff f is not All and the row's status is not f, whatever was
\* selected before.
C9_DetailFilterMarks ==
    (lastOp = "updateFilter") =>
        /\ content.kind = "detail"
        /\ \A n \in 1..Len(content.rows) :
              content.rows[n].filtered <=>
                  /\ content.sel.status # S_All
                  /\ content.rows[n].cells[5] # content.sel.status

\* FAIL is selected: the PASS row is marked, the FAIL row is not
C9_Witness ==
    /\ lastOp = "updateFilter"
    /\ content.sel.status = S_FAIL
    /\ \E n, k \in 1..Len(content.rows) :
          /\ content.rows[n].cells[5] = S_PASS /\ content.rows[n].filtered
          /\ content.rows[k].cells[5] = S_FAIL /\ ~content.rows[k].filtered

\* C10: applying a filter changes nothing but the filtered marks of the rows
\* on display: the store, the rows and their order and statuses, the view,
\* the fragment and the fetches in flight stay as they were.
C10_FilterOnlyMarksRows ==
    [][ (lastOp' \in {"updateFilter", "updateHomeFilter"}) =>
            /\ metadata' = metadata
            /\ currentView' = currentView
            /\ fragment' = fragment
            /\ events' = events
            /\ pending' = pending
            /\ versionInfo' = versionInfo
            /\ content'.kind = content.kind
            /\ content'.text = content.text
            /\ content'.key = content.key
            /\ content'.log = content.log
            /\ Len(content'.rows) = Len(content.rows)
            /\ \A n \in 1..Len(content.rows) :
                  [content'.rows[n] EXCEPT !.filtered = content.rows[n].filtered]
                      = content.rows[n] ]_vars

\* a filter has hidden a row while a log fetch is in flight
C10_Witness ==
    /\ lastOp \in {"updateFilter", "updateHomeFilter"}
    /\ Len(pending.logs) > 0
    /\ \E n \in 1..Len(content.rows) : content.rows[n].filtered

-----------------------------------------------------------------------------
\* C11: after the home filter is applied with selections (e, o), a home row
\* is not marked filtered iff (e is All or its Enforced summary is e) and
\* (o is All or its Optional summary is o); a selection on one axis leaves
\* the selection of the other axis as it was.
C11_HomeFilterBothAxes ==
    [][ (lastOp' = "updateHomeFilter") =>
            /\ content'.kind = "home"
            /\ \A n \in 1..Len(content'.rows) :
                  (~content'.rows[n].filtered) <=>
                      /\ \/ content'.sel.enforced = S_All
                         \/ content'.rows[n].cells[7] = content'.sel.enforced
                      /\ \/ content'.sel.optional = S_All
                         \/ content'.rows[n].cells[8] = content'.sel.optional
            /\ \/ content'.sel.enforced = content.sel.enforced
               \/ content'.sel.optional = content.sel.optional
            /\ content'.sel.status = content.sel.status ]_vars

\* both axes are set: one row passes both, one passes the enforced axis only
\* and is hidden
C11_Witness ==
    /\ lastOp = "updateHomeFilter"
    /\ content.sel.enforced = S_PASS
    /\ content.sel.optional = S_FAIL
    /\ \E n, k \in 1..Len(content.rows) :
          /\ content.rows[n].cells[7] = S_PASS /\ content.rows[n].cells[8] = S_FAIL
          /\ ~content.rows[n].filtered
          /\ content.rows[k].cells[7] = S_PASS /\ content.rows[k].cells[8] = S_NA
          /\ content.rows[k].filtered

\* a handler has just written the home or the detail view into #content
freshRender ==
    /\ lastOp \in {"init", "handleRoute", "showHome"}
    /\ content.kind \in {"home", "detail"}

\* C12: every fresh render of the home or the detail view has every filter
\* selection at All and no row marked filtered, whatever was selected in the
\* view it replaces.
C12_FreshRenderResetsFilters ==
    freshRender =>
        /\ content.sel = NoSelection
        /\ \A n \in 1..Len(content.rows) : ~content.rows[n].filtered

\* the view was rendered over one in which a filter was selected
C12_Witness ==
    /\ freshRender
    /\ Len(content.rows) > 0
    /\ discarded # NoSelection

\* the sequence s without its i-th element
without(s, i) == [j \in 1..(Len(s) - 1) |-> IF j < i THEN s[j] ELSE s[j + 1]]

\* the fetches in flight that will write into the log panel on display
liveLogs == { i \in 1..Len(pending.logs) : pending.logs[i].live }

\* C13: two log fetches of one detail view can be in flight at once, and each
\* one, as it resolves, puts its own text into the log panel: once both have
\* resolved the panel shows the text of the one that resolved last, in
\* whichever order they were requested.
C13_LastResolvedLogWins ==
    [][ (lastOp' = "logResolved") =>
            \E i \in 1..Len(pending.logs) :
                /\ pending'.logs = without(pending.logs, i)
                /\ pending.logs[i].live =>
                      /\ content'.log.state \in {"text", "error"}
                      /\ content'.log.state = "text" =>
                            content'.log.text = logText(pending.logs[i].path)
                      /\ content'.log.state = "error" =>
                            content'.log.text = S_logFailed \o pending.logs[i].path ]_vars

\* one of two fetches has resolved and its text is shown while the other,
\* for another log, is still in flight
C13_Witness ==
    /\ lastOp = "logResolved"
    /\ content.kind = "detail"
    /\ content.log.state = "text"
    /\ liveLogs # {}
    /\ \A i \in liveLogs : content.log.text # logText(pending.logs[i].path)

\* C14: a failed log fetch changes the log panel alone, and a failed status
\* fetch changes the Status view alone: when the home or the detail view is
\* on display as the failure arrives, that view stays as it is.
C14_SecondaryFailureStaysLocal ==
    [][ /\ (lastOp' = "logResolved") =>
              /\ [content' EXCEPT !.log = content.log] = content
              /\ currentView' = currentView
              /\ fragment' = fragment
        /\ (lastOp' = "statusResolved" /\ content.kind \in {"home", "detail"}) =>
              (content'.kind = "error" => content' = content) ]_vars

\* C15: when the fetch of the snapshot fails, or its response is not ok, the
\* page shows the initialization error and nothing else, and goes on showing
\* it whatever fragment changes follow.
C15_InitFailureIsFinal ==
    (pc = "failed") =>
        /\ content.kind = "error"
        /\ startsWith(content.text, S_initFailed)
        /\ content.rows = << >>
        /\ content.log = NoLog
        /\ metadata = NullMetadata
        /\ pending.status = 0
        /\ pending.logs = << >>

\* a fragment change has been dispatched after the failure
C15_Witness ==
    /\ pc = "failed"
    /\ lastOp = "unheard"
    /\ locationHash(fragment) = S_status
    /\ content.kind = "error"

\* C17: the store is written once, by initialization: from the null it starts
\* as to the snapshot loaded, and no navigation, filter selection, log request
\* or fetch resolution changes it afterwards.
C17_StoreWrittenOnce ==
    [][ /\ (metadata' # metadata) =>
              /\ lastOp' = "init"
              /\ pc = "loading"
              /\ metadata = NullMetadata
        /\ (pc # "loading") => (metadata' = metadata) ]_vars

\* the store is loaded and handlers of every kind have run since: a log
\* requested from a detail view has resolved
C17_Witness ==
    /\ pc = "ready"
    /\ metadata.shape = "object"
    /\ Len(metadata.entries) > 0
    /\ lastOp = "logResolved"
    /\ content.log.state = "text"

\* the shape required of a snapshot: an object whose values are all objects
objectOfObjects(md) ==
    /\ md.shape = "object"
    /\ \A i \in 1..Len(md.entries) : md.entries[i].prim = "object"

\* C16: when the body of the snapshot is JSON of another shape than an
\* object of objects, initialization fails: the initialization error is
\* shown, and no home, detail or status view.
C16_MalformedSnapshotFailsInit ==
    (pc # "loading" /\ ~objectOfObjects(metadata)) =>
        /\ pc = "failed"
        /\ content.kind = "error"
        /\ startsWith(content.text, S_initFailed)

\* the values the view on display embeds as its heading or message and in
\* the link targets and inline handlers of its rows
embeds ==
    { content.html[i] : i \in 1..Len(content.html) }
    \cup UNION { { content.rows[n].html[i] : i \in 1..Len(content.rows[n].html) } :
                   n \in 1..Len(content.rows) }

\* no "<", ">" or quote in raw form, and no "&" but at the head of an entity
entityEncoded(s) ==
    \A k \in 1..Len(s) :
        /\ s[k] \notin {"<", ">", "\"", "'"}
        /\ s[k] = "&" => \E e \in Entities : startsWith(substring(s, k - 1), e)

\* C18: every value of a record or of the fragment that a view embeds in its
\* markup (as text, as a link target, as an argument of an inline handler)
\* is written with "<", ">", "&" and the quotes as entities, never raw; here
\* for the heading or message of the view and the attributes of its rows.
C18_EmbeddedValuesEncoded ==
    \A e \in embeds :
        /\ entityEncoded(e.written)
        /\ decodeEntities(e.written) = e.raw

\* the detail view of a record of the store is on display
detailOfRecord == content.kind = "detail" /\ hasOwnKey(metadata, content.key)

\* C19: the outcomes extracted from a record are one per field whose name
\* starts with "result", named by the rest of the field name, in the order of
\* the record's fields; they are a function of the record alone, so
\* extracting again gives the same sequence.
C19_OneOutcomePerResultField ==
    detailOfRecord =>
        LET data == ownData(metadata, content.key)
            R    == resultPositions(data)
        IN  /\ Len(content.rows) = Cardinality(R)
            /\ \A n \in 1..Len(content.rows) :
                  content.rows[n].cells[1] = outcomeName(data, nth(R, n))

\* two outcomes, with fields of other kinds before and between them
C19_Witness ==
    /\ detailOfRecord
    /\ Len(content.rows) = 2
    /\ content.rows[1].cells[1] # content.rows[2].cells[1]
    /\ LET data == ownData(metadata, content.key)
           R    == resultPositions(data)
       IN  /\ nth(R, 1) > 1
           /\ nth(R, 2) > nth(R, 1) + 1

\* the return code of a field value: its integer value, -1 when it has none
codeOf(v) == LET p == parseInt(v) IN IF p.nan THEN -1 ELSE p.v

\* C20: the return code of an outcome is the integer its result field parses
\* to, and -1 when the field does not parse ("abort"); its detail row shows
\* PASS iff the return code is 0 and FAIL otherwise, so a value that does not
\* parse shows FAIL, and makes the home summary of its class FAIL.
C20_ReturnCodeAndStatus ==
    /\ detailOfRecord =>
          LET data    == ownData(metadata, content.key)
              R       == resultPositions(data)
              results == detailResults(mode, content.key, data)
          IN  \A n \in 1..Len(content.rows) :
                  LET v == data[nth(R, n)].val
                  IN  /\ results[n].rc = codeOf(v)
                      /\ content.rows[n].cells[5] = S_PASS <=> codeOf(v) = 0
                      /\ content.rows[n].cells[5] = S_FAIL <=> codeOf(v) # 0
                      /\ parseInt(v).nan => content.rows[n].cells[5] = S_FAIL
    /\ (content.kind = "home") =>
          \A n \in 1..Len(content.rows) :
              LET data == recordOf(content.rows[n])
              IN  \A i \in resultPositions(data) :
                      parseInt(data[i].val).nan =>
                          content.rows[n].cells[IF enforcedAt(data, i) THEN 7 ELSE 8] = S_FAIL

\* a detail row for a result field holding "abort"
C20_Witness ==
    /\ detailOfRecord
    /\ \E n \in 1..Len(content.rows) :
          LET data == ownData(metadata, content.key)
          IN  /\ data[nth(resultPositions(data), n)].val = StringValue(S_abort)
              /\ content.rows[n].cells[5] = S_FAIL

\* the value of the enforced field that goes with the result at position i
enforcedValue(data, i) == get(data, S_enforced \o outcomeName(data, i))

\* exactly the string "True" or the boolean true
literalTrue(v) == v = StringValue(S_True) \/ v = BooleanValue(TRUE)

\* C21: an outcome is Enforced iff the record's enforced<Name> field is the
\* string "True" or the boolean true. With any other value ("true", "false",
\* 0, 1, false, absent) its detail row reads Optional, and on the home
\* listing it counts in the Optional summary only: the Enforced summary is
\* the one of the record without it, and a failing one makes Optional FAIL.
C21_EnforcedIsLiteralTrue ==
    /\ detailOfRecord =>
          LET data == ownData(metadata, content.key)
              P    == resultPositions(data)
          IN  \A n \in 1..Len(content.rows) :
                 (content.rows[n].cells[3] = S_Enforced)
                     <=> literalTrue(enforcedValue(data, nth(P, n)))
    /\ (content.kind = "home") =>
          \A n \in 1..Len(content.rows) :
             LET data == recordOf(content.rows[n])
                 P    == resultPositions(data)
                 O    == { i \in P : ~literalTrue(enforcedValue(data, i)) }
             IN  /\ content.rows[n].cells[7] = summaryOf(data, P \ O)
                 /\ (\E i \in O : ~passes(data, i)) => content.rows[n].cells[8] = S_FAIL
                 /\ (O # {} /\ \A i \in O : passes(data, i)) => content.rows[n].cells[8] = S_PASS

\* the detail view of a record whose first outcome is flagged "true" (read
\* as Optional) next to one flagged "True" (read as Enforced)
C21_Witness ==
    /\ detailOfRecord
    /\ Len(content.rows) = 2
    /\ enforcedValue(ownData(metadata, content.key), nth(resultPositions(ownData(metadata, content.key)), 1))
          = StringValue(S_true)
    /\ content.rows[1].cells[3] = S_Optional
    /\ content.rows[2].cells[3] = S_Enforced

\* the home row of a record whose only failing outcome is flagged 1: the
\* Enforced summary passes and the Optional one fails
C21_HomeWitness ==
    /\ content.kind = "home"
    /\ \E n \in 1..Len(content.rows) :
          LET data == recordOf(content.rows[n])
          IN  /\ \E i \in resultPositions(data) :
                    enforcedValue(data, i) = NumberValue(1) /\ ~passes(data, i)
              /\ content.rows[n].cells[7] = S_PASS
              /\ content.rows[n].cells[8] = S_FAIL

\* nothing is in flight: no fetch is pending and no hashchange event queued
quiescent ==
    /\ pending.status = 0
    /\ pending.logs = << >>
    /\ pending.version = 0
    /\ events = 0

\* the kinds of content the view a fragment selects may show
kindsSelected ==
    IF startsWith(currentHash, S_review) THEN {"detail", "error"}
    ELSE IF currentHash = S_status THEN {"status", "error"}
    ELSE {"home"}

\* C22: whenever no fetch is pending (and the page has initialised and
\* handled every fragment change), #content shows the view the fragment
\* selects: a fetch of the status text that resolves after the user has gone
\* from Status to Home or Detail does not put the status text or a status
\* error in place of that view.
C22_ContentFollowsFragment ==
    (pc = "ready" /\ quiescent) => content.kind \in kindsSelected

\* the route evaluation that follows a click on a link of the home listing
\* has run
linkRouted == lastOp = "handleRoute" /\ followed.set

\* C23: the link of a home row, once routed, enters the detail view of the
\* record the row was rendered from, whatever the store, two listed records
\* with one change_id included.
C23_HomeLinkEntersItsRecord ==
    linkRouted => (content.kind = "detail" /\ content.key = followed.src)

\* the fetches in flight that were started under an earlier write of
\* #content: the panel they hold is no longer in the document
staleLogs == { i \in 1..Len(pending.logs) : ~pending.logs[i].live }

\* C24: a log fetch started in one render of the detail view never writes
\* into the log panel of a later one: when a fetch resolves whose view has
\* been left and #content written again since, what is on display (the
\* placeholder of the new panel, or its own log) stays as it is.
C24_StaleLogLeavesPanel ==
    [][ (lastOp' = "logResolved") =>
            \A i \in staleLogs :
                (pending'.logs = without(pending.logs, i)) => content' = content ]_vars

\* a fetch started in an earlier render has resolved while the detail view
\* rendered since shows the placeholder of its panel
C24_Witness ==
    /\ lastOp = "logResolved"
    /\ content.kind = "detail"
    /\ content.log = EmptyLog

\* a fetch started in an earlier render has resolved while the detail view
\* rendered since waits for a log of its own
C24_OwnLogWitness ==
    /\ lastOp = "logResolved"
    /\ content.kind = "detail"
    /\ content.log.state = "loading"
    /\ liveLogs # {}
    /\ staleLogs = {}

\* the fragments the views write themselves: "" (Home) and "status" (Status)
ownFragments == {Fragment(S_empty), Fragment(Tail(S_status))}

\* C25: routing quiesces. A route evaluation queues a further hashchange
\* event only by Home's write of the empty fragment; the evaluation of a
\* fragment a view wrote itself re-enters that view and queues nothing; and
\* after a change of the fragment every queued event is consumed: no endless
\* loop of fragment changes.
C25_RoutingQuiesces ==
    /\ [][ (lastOp' = "handleRoute") =>
              /\ (events' >= events) =>
                    (events' = events /\ fragment' = Fragment(S_empty) /\ currentView' = "home")
              /\ (fragment \in ownFragments) =>
                    /\ events' = events - 1
                    /\ fragment' = fragment
                    /\ currentView' = (IF fragment = Fragment(S_empty) THEN "home" ELSE "status") ]_vars
    /\ (events > 0) ~> (events = 0)

\* the event queued by Home's own write of the fragment, on a route to an
\* unrecognised fragment, has been evaluated and nothing is queued any more
C25_Witness ==
    /\ lastOp = "handleRoute"
    /\ events = 0
    /\ fragment = Fragment(S_empty)
    /\ content.kind = "home"
    /\ pc = "ready"

\* the name, return code and enforced flag of an outcome
triple(r) == [name |-> r.name, rc |-> r.rc, enforced |-> r.enforced]

triples(results) == [i \in 1..Len(results) |-> triple(results[i])]

\* the summary Home would show for the detail rows of one class
detailSummary(rows, class) ==
    LET R == { n \in 1..Len(rows) : rows[n].cells[3] = class }
    IN  IF R = {} THEN S_NA
        ELSE IF \A n \in R : rows[n].cells[5] = S_PASS THEN S_PASS
        ELSE S_FAIL

\* C26: the loop of the home view and the loop of the detail view extract
\* the same outcomes from a record: the same (name, return code, enforced)
\* triples in the same order. So the rows of a detail view are those the
\* home loop finds, and the Enforced (Optional) summary of a home row is
\* PASS iff the detail view of its record has an Enforced (Optional) row
\* and all of them show PASS.
C26_HomeAndDetailAgree ==
    /\ detailOfRecord =>
          LET hs == homeResults(ownData(metadata, content.key))
          IN  /\ Len(content.rows) = Len(hs)
              /\ \A n \in 1..Len(hs) :
                    /\ content.rows[n].cells[1] = hs[n].name
                    /\ (content.rows[n].cells[3] = S_Enforced) <=> hs[n].enforced
                    /\ (content.rows[n].cells[5] = S_PASS) <=> (hs[n].rc = 0)
    /\ (content.kind = "home") =>
          \A n \in 1..Len(content.rows) :
             LET key  == content.rows[n].src
                 ds   == detailResults(mode, key, recordOf(content.rows[n]))
                 rows == renderResultsTable(key, ds)
             IN  /\ triples(ds) = triples(homeResults(recordOf(content.rows[n])))
                 /\ content.rows[n].cells[7] = detailSummary(rows, S_Enforced)
                 /\ content.rows[n].cells[8] = detailSummary(rows, S_Optional)

\* the home row of a record whose detail view has a passing Enforced row and
\* an Optional row that fails because its result is no number
C26_Witness ==
    /\ content.kind = "home"
    /\ \E n \in 1..Len(content.rows) :
          LET ds == detailResults(mode, content.rows[n].src, recordOf(content.rows[n]))
          IN  /\ Len(ds) = 2
              /\ ds[1].enforced /\ ds[1].rc = 0
              /\ ~ds[2].enforced /\ ds[2].rc = -1
              /\ content.rows[n].cells[7] = S_PASS
              /\ content.rows[n].cells[8] = S_FAIL

====
